---- MODULE Spec2Model ----
(***************************************************************************)
(* Model of src/js/datastore/dataStore-elastic.js: the text chunk          *)
(* splitter (createTextChunks), the range query (buildRangeQuery), the     *)
(* chunk reassembly (joinTextChunksAndTrim), the sequential indexing       *)
(* pipeline (indexArray / indexArrays) and the import / fetch operations   *)
(* of the datastore API (importData, fetchText).                           *)
(*                                                                         *)
(* Strings are sequences of one-character strings; string indexes are     *)
(* the 0-based indexes of JavaScript, converted where a sequence is read.  *)
(***************************************************************************)
EXTENDS Integers, Sequences, FiniteSets, TLC

(***************************************************************************)
(* Bounds of the model.                                                    *)
(***************************************************************************)
\* longest text of one input text part
MaxPartLen == 3
\* largest number of text parts of one input
MaxParts == 2
\* largest sequence number of an input text part
MaxSequence == 1
\* largest maxSize tried besides the configured textChunkSize
MaxMaxSize == 3

\* longest text of an imported input
MaxImportLen == 4
\* largest number of annotations of one kind in an imported input
MaxAnnotations == 1
\* largest number of collections, and of records of one collection, handed
\* to indexArrays directly
MaxCollections == 2
MaxRecords == 3
\* largest offset of a fetched window and of a stored record
MaxOffset == 4
\* longest text joinTextChunksAndTrim is given chunks of
MaxJoinLen == 4

\* the characters of the bounded inputs: a letter and the space
Chars == {"a", " "}

\* var textChunkSize = 1000
textChunkSize == 1000

\* null and undefined of JavaScript, for offsets and lengths
Null == -1000

(***************************************************************************)
(* String helpers, with JavaScript's semantics.                            *)
(***************************************************************************)
Min(a, b) == IF a < b THEN a ELSE b
Max(a, b) == IF a > b THEN a ELSE b

\* all sequences over S of length at most n
SeqsUpTo(S, n) == UNION {[1..k -> S] : k \in 0..n}

\* lastIndexOf searching strictly before fromIndex
LastIndexOfBefore(str, ch, fromIndex) ==
    LET top == Min(Max(fromIndex - 1, 0), Len(str) - 1)
        hits == {i \in 0..top : str[i + 1] = ch}
    IN IF hits = {} THEN -1 ELSE CHOOSE i \in hits : \A j \in hits : j <= i

\* String.prototype.lastIndexOf(ch, fromIndex) for a one-character ch:
\* the greatest 0-based index <= fromIndex holding ch, or -1
LastIndexOf(str, ch, fromIndex) ==
    LET top == Min(Max(fromIndex, 0), Len(str) - 1)
        hits == {i \in 0..top : str[i + 1] = ch}
    IN IF hits = {} THEN -1 ELSE CHOOSE i \in hits : \A j \in hits : j <= i

\* String.prototype.substring(from, to), arguments clamped to 0..length and
\* swapped when from > to
Substring(str, from, to) ==
    LET f == Min(Max(from, 0), Len(str))
        t == Min(Max(to, 0), Len(str))
    IN SubSeq(str, Min(f, t) + 1, Max(f, t))

\* String.prototype.substr(from, length): a negative from counts from the
\* end, the length is clamped to what is left
Substr(str, from, length) ==
    LET f == IF from < 0 THEN Max(Len(str) + from, 0) ELSE Min(from, Len(str))
        n == Min(Max(length, 0), Len(str) - f)
    IN SubSeq(str, f + 1, f + n)

\* Array.prototype.join("") of a sequence of strings
RECURSIVE Join(_)
Join(strs) == IF strs = <<>> THEN <<>> ELSE Head(strs) \o Join(Tail(strs))

\* Array.prototype.map(function(struct) { return struct.text; })
MapText(structs) == [i \in 1..Len(structs) |-> structs[i].text]

(***************************************************************************)
(* Array.prototype.sort(cmp) with cmp the difference of an integer key:    *)
(* a stable insertion sort, ascending by key.                              *)
(***************************************************************************)
RECURSIVE InsertBy(_, _, _)
InsertBy(x, sorted, key) ==
    IF sorted = <<>> THEN <<x>>
    ELSE IF x[key] - Head(sorted)[key] < 0
         THEN <<x>> \o sorted
         ELSE <<Head(sorted)>> \o InsertBy(x, Tail(sorted), key)

RECURSIVE SortBy(_, _)
SortBy(arr, key) ==
    IF arr = <<>> THEN <<>>
    ELSE InsertBy(arr[Len(arr)], SortBy(SubSeq(arr, 1, Len(arr) - 1), key), key)

(***************************************************************************)
(* State.                                                                  *)
(***************************************************************************)
VARIABLES
    \* createTextChunks: arguments, locals and position
    maxSize, parts, text, result, offset, length, cpc,
    \* the document store: the documents indexed, the next id it mints, and
    \* the requests it was sent and the answers it gave, in order
    store, nextId, trace,
    \* the chunk size createTextChunks is called with by importData
    chunkSize,
    \* importData / indexArrays, per call: position, who called indexArrays,
    \* the input, the minted textId, the collections not yet shifted, the
    \* type and rest of the collection being indexed, the request in flight
    ipc, caller, data, textId, lists, type, list, pending,
    \* the array of collections indexArrays was called with, per call
    dataToIndex,
    \* the arguments indexArrays' callback and the caller's callback were
    \* invoked with, per call, in order
    pcb, cb,
    \* fetchText: position, arguments, the search request in flight, the set
    \* of hits the store answered with, the arguments its callback got
    fpc, fargs, fpending, fhits, fcb,
    \* joinTextChunksAndTrim: the text the chunks were cut from, the
    \* arguments, the value returned, position
    jtext, jstart, jend, chunks, joined, jpc

splitVars == <<maxSize, parts, text, result, offset, length, cpc>>
storeVars == <<store, nextId, trace>>
importVars == <<chunkSize, ipc, caller, data, textId, lists, type, list, pending,
                dataToIndex, pcb, cb>>
fetchVars == <<fpc, fargs, fpending, fhits, fcb>>
joinVars == <<jtext, jstart, jend, chunks, joined, jpc>>
vars == <<splitVars, storeVars, importVars, fetchVars, joinVars>>

\* the calls of importData / indexArrays that may run
Imports == {1, 2}

\* callback(null): no error
NullErr == [null |-> TRUE, message |-> <<>>]
\* the error object the store client passes when a request fails
StoreErr == [null |-> FALSE, message |-> <<"store failure">>]
\* no request in flight
NoRequest == [op |-> "none"]

\* an empty store that was sent nothing
IdleStore ==
    /\ store = {}
    /\ nextId = 1
    /\ trace = <<>>

\* call i has the given position, caller and input and has not started
NotStarted(pos, who, input, colls) ==
    /\ ipc = pos
    /\ caller = who
    /\ data = input
    /\ textId = [i \in Imports |-> Null]
    /\ lists = colls
    /\ dataToIndex = colls
    /\ type = [i \in Imports |-> ""]
    /\ list = [i \in Imports |-> <<>>]
    /\ pending = [i \in Imports |-> NoRequest]
    /\ pcb = [i \in Imports |-> <<>>]
    /\ cb = [i \in Imports |-> <<>>]

NoData == [text |-> <<>>, semantics |-> <<>>, typography |-> <<>>,
           metadata |-> [title |-> "none"]]

\* fetchText was not called
IdleFetch ==
    /\ fpc = "idle"
    /\ fargs = [textId |-> Null, start |-> Null, end |-> Null]
    /\ fpending = NoRequest
    /\ fhits = {}
    /\ fcb = <<>>

\* joinTextChunksAndTrim is not running
IdleJoin ==
    /\ jtext = <<>>
    /\ jstart = Null
    /\ jend = Null
    /\ chunks = <<>>
    /\ joined = [text |-> <<>>]
    /\ jpc = "idle"

\* no importData and no indexArrays call exists
IdleImport ==
    /\ chunkSize = textChunkSize
    /\ NotStarted([i \in Imports |-> "off"], [i \in Imports |-> "none"],
                  [i \in Imports |-> NoData], [i \in Imports |-> <<>>])

(***************************************************************************)
(* createTextChunks(maxSize, data), one action per step of its loop.       *)
(***************************************************************************)
\* the inputs tried: bounded parts over Chars, and the documented example
PartTexts == SeqsUpTo(Chars, MaxPartLen)
TextParts == [sequence : 0..MaxSequence, text : PartTexts]
ExampleParts == << [sequence |-> 1, text |-> <<"h", "e", "l", "l", "o", " ">>],
                   [sequence |-> 0, text |-> <<"t", "h", "e", " ">>] >>
Example == [parts |-> ExampleParts, maxSize |-> 6]
PartsInputs == SeqsUpTo(TextParts, MaxParts) \cup {ExampleParts}
MaxSizeInputs == (1..MaxMaxSize) \cup {Example.maxSize, textChunkSize}

\* the merge without the sort
MergedTextUnsorted(textParts) == Join(MapText(textParts))

\* data.text.sort(by sequence).map(text).join("")
MergedText(textParts) == Join(MapText(SortBy(textParts, "sequence")))

\* createTextChunks is not running
IdleSplit ==
    /\ maxSize = 1
    /\ parts = <<>>
    /\ text = <<>>
    /\ result = <<>>
    /\ offset = 0
    /\ length = Null
    /\ cpc = "idle"

InitSplit ==
    /\ IdleStore
    /\ IdleImport
    /\ IdleFetch
    /\ IdleJoin
    /\ maxSize \in MaxSizeInputs
    /\ parts \in PartsInputs
    /\ text = <<>>
    /\ result = <<>>
    /\ offset = 0
    /\ length = Null
    /\ cpc = "call"

\* lines 73-79: sort, join, var result = [], var offset = 0
CreateTextChunksEnter ==
    /\ cpc = "call"
    /\ text' = MergedText(parts)
    /\ result' = <<>>
    /\ offset' = 0
    /\ cpc' = "while"
    /\ UNCHANGED <<maxSize, parts, length>>

\* line 80: while (text != "")
WhileTest ==
    /\ cpc = "while"
    /\ cpc' = IF text # <<>> THEN "body" ELSE "return"
    /\ UNCHANGED <<maxSize, parts, text, result, offset, length>>

\* lines 81-97: the locals after one run of the body of the loop
ChunkStep(txt, res, off, size) ==
    LET found == LastIndexOf(txt, " ", size)
    IN IF found = -1
       THEN [length |-> Len(txt), text |-> txt, result |-> res, offset |-> off]
       ELSE IF found = 0
       THEN [length |-> found, text |-> <<>>,
             result |-> Append(res, [text |-> txt, offset |-> off]),
             offset |-> off]
       ELSE [length |-> found, text |-> Substring(txt, found, Len(txt)),
             result |-> Append(res, [text |-> Substring(txt, 0, found),
                                     offset |-> off]),
             offset |-> off + found]

\* lines 81-97: the body of the loop
LoopBody ==
    /\ cpc = "body"
    /\ LET next == ChunkStep(text, result, offset, maxSize)
       IN /\ length' = next.length
          /\ text' = next.text
          /\ result' = next.result
          /\ offset' = next.offset
    /\ cpc' = "while"
    /\ UNCHANGED <<maxSize, parts>>

\* line 101: return result
CreateTextChunksReturn ==
    /\ cpc = "return"
    /\ cpc' = "done"
    /\ UNCHANGED <<maxSize, parts, text, result, offset, length>>

\* lines 80-99 run to their end: the chunks returned, or no return when an
\* iteration leaves text, result and offset as they were, which the next
\* iterations then repeat for ever
RECURSIVE ChunkLoop(_, _, _, _)
ChunkLoop(txt, res, off, size) ==
    IF txt = <<>> THEN [returns |-> TRUE, result |-> res]
    ELSE LET next == ChunkStep(txt, res, off, size)
         IN IF next.text = txt /\ next.result = res /\ next.offset = off
            THEN [returns |-> FALSE, result |-> res]
            ELSE ChunkLoop(next.text, next.result, next.offset, size)

\* createTextChunks(maxSize, data) as one call
createTextChunks(size, input) == ChunkLoop(MergedText(input.text), <<>>, 0, size)

NextSplit ==
    \/ CreateTextChunksEnter /\ UNCHANGED <<storeVars, importVars, fetchVars, joinVars>>
    \/ WhileTest /\ UNCHANGED <<storeVars, importVars, fetchVars, joinVars>>
    \/ LoopBody /\ UNCHANGED <<storeVars, importVars, fetchVars, joinVars>>
    \/ CreateTextChunksReturn /\ UNCHANGED <<storeVars, importVars, fetchVars, joinVars>>

SpecSplit == InitSplit /\ [][NextSplit]_vars
\* the loop is a running computation: each enabled step is taken
SpecSplitFair == SpecSplit /\ WF_vars(NextSplit)

(***************************************************************************)
(* The store client: requests and the events of the trace.                 *)
(***************************************************************************)
IndexRequest(ty, item) == [op |-> "index", type |-> ty, item |-> item]
RefreshRequest == [op |-> "refresh"]
Submitted(i, req) == [by |-> i, ev |-> "submit", req |-> req]
Acked(i, req) == [by |-> i, ev |-> "ack", req |-> req]
Failed(i, req) == [by |-> i, ev |-> "fail", req |-> req]

\* the document indexed under the textId of the record, where it has one
DocumentAtTextId(id, req) ==
    [_id |-> IF "textId" \in DOMAIN req.item THEN req.item.textId ELSE id,
     _type |-> req.type, _source |-> req.item]

\* the document the store keeps for an acknowledged index request
Document(id, req) == [_id |-> id, _type |-> req.type, _source |-> req.item]

\* the documents of the store once doc is indexed: a document indexed under
\* an id the store holds already takes the place of the one held
Indexed(docs, doc) == {d \in docs : d._id # doc._id} \cup {doc}

\* object[field] = value
Stamp(object, field, value) ==
    [f \in (DOMAIN object) \cup {field} |->
        IF f = field THEN value ELSE object[f]]

(***************************************************************************)
(* indexArray / indexArrays, lines 160-204: run from a call up to the next *)
(* client.index request or up to the callback of indexArrays.              *)
(***************************************************************************)
RECURSIVE indexArray(_, _, _)
RECURSIVE indexArrays(_)

\* indexArray dropping the record it shifted when it is the last of its list
indexArraySkipLast(ty, li, ls) ==
    IF Len(li) > 1
    THEN [kind |-> "index", type |-> ty, item |-> Head(li), list |-> Tail(li),
          lists |-> ls]
    ELSE indexArrays(ls)

\* lines 160-175 from the call: var item = list.shift(); if (item) ...
indexArray(ty, li, ls) ==
    IF li # <<>>
    THEN [kind |-> "index", type |-> ty, item |-> Head(li), list |-> Tail(li),
          lists |-> ls]
    ELSE indexArrays(ls)

\* lines 188-204 from the call: var wrap = lists.shift(); if (wrap) ...
indexArrays(ls) ==
    IF ls # <<>>
    THEN indexArray(Head(ls).type, Head(ls).list, Tail(ls))
    ELSE [kind |-> "callback", type |-> "", list |-> <<>>, lists |-> <<>>]

\* the annotation left as the store client made it
AnnotateNothing(err, ty) == err

\* line 195: err.message = "Error while indexing " + type
Annotate(err, ty) == [err EXCEPT !.message = <<"Error while indexing ", ty>>]

\* the callback handed to indexArrays invoked on success only: after a
\* failed write the pipeline stops without a word
PipelineCallbackOnSuccessOnly(i, err, tr) ==
    IF err.null
    THEN /\ pcb' = [pcb EXCEPT ![i] = Append(@, err)]
         /\ IF caller[i] = "importData"
            THEN /\ pending' = [pending EXCEPT ![i] = RefreshRequest]
                 /\ trace' = Append(tr, Submitted(i, RefreshRequest))
                 /\ ipc' = [ipc EXCEPT ![i] = "refresh"]
            ELSE /\ pending' = [pending EXCEPT ![i] = NoRequest]
                 /\ trace' = tr
                 /\ ipc' = [ipc EXCEPT ![i] = "done"]
    ELSE /\ pcb' = pcb
         /\ pending' = [pending EXCEPT ![i] = NoRequest]
         /\ trace' = tr
         /\ ipc' = [ipc EXCEPT ![i] = "done"]

\* the callback handed to indexArrays is invoked with err: importData's
\* (lines 579-583) issues the refresh whatever err is; a direct caller's only
\* receives it.  tr is the trace up to this point.
PipelineCallback(i, err, tr) ==
    /\ pcb' = [pcb EXCEPT ![i] = Append(@, err)]
    /\ IF caller[i] = "importData"
       THEN /\ pending' = [pending EXCEPT ![i] = RefreshRequest]
            /\ trace' = Append(tr, Submitted(i, RefreshRequest))
            /\ ipc' = [ipc EXCEPT ![i] = "refresh"]
       ELSE /\ pending' = [pending EXCEPT ![i] = NoRequest]
            /\ trace' = tr
            /\ ipc' = [ipc EXCEPT ![i] = "done"]

\* the pipeline goes on as out says: the next client.index, or its callback
Proceed(i, out, tr) ==
    /\ type' = [type EXCEPT ![i] = out.type]
    /\ list' = [list EXCEPT ![i] = out.list]
    /\ lists' = [lists EXCEPT ![i] = out.lists]
    /\ IF out.kind = "index"
       THEN /\ pending' = [pending EXCEPT ![i] = IndexRequest(out.type, out.item)]
            /\ trace' = Append(tr, Submitted(i, IndexRequest(out.type, out.item)))
            /\ ipc' = [ipc EXCEPT ![i] = "indexing"]
            /\ UNCHANGED pcb
       ELSE PipelineCallback(i, NullErr, tr)

\* indexArrays(index, lists, callback) called by a caller other than
\* importData
IndexArraysCall(i) ==
    /\ ipc[i] = "idle"
    /\ caller[i] = "direct"
    /\ Proceed(i, indexArrays(lists[i]), trace)
    /\ UNCHANGED <<store, nextId, chunkSize, caller, data, textId, dataToIndex, cb>>

\* the store answers the client.index of indexArray: lines 163-170, and on
\* an error lines 194-196
IndexAck(i) ==
    /\ ipc[i] = "indexing"
    /\ \E ok \in BOOLEAN :
        IF ok
        THEN /\ store' = Indexed(store, Document(nextId, pending[i]))
             /\ nextId' = nextId + 1
             /\ Proceed(i, indexArray(type[i], list[i], lists[i]),
                        Append(trace, Acked(i, pending[i])))
        ELSE /\ UNCHANGED <<store, nextId, type, list, lists>>
             /\ PipelineCallback(i, Annotate(StoreErr, type[i]),
                                 Append(trace, Failed(i, pending[i])))
    /\ UNCHANGED <<chunkSize, caller, data, textId, dataToIndex, cb>>

(***************************************************************************)
(* importData, lines 550-588.                                              *)
(***************************************************************************)
\* the chunk records with end the offset of the last character of the chunk
ChunkRecordsInclusiveEnd(cs, tid) ==
    [k \in 1..Len(cs) |->
        [textId |-> tid, text |-> cs[k].text, start |-> cs[k].offset,
         end |-> cs[k].offset + Len(cs[k].text) - 1]]

\* lines 558-565: the chunk records
ChunkRecords(cs, tid) ==
    [k \in 1..Len(cs) |->
        [textId |-> tid, text |-> cs[k].text, start |-> cs[k].offset,
         end |-> cs[k].offset + Len(cs[k].text)]]

\* lines 568-571 and 574-577: annotation.textId = textId
StampAll(annotations, tid) ==
    [k \in 1..Len(annotations) |-> Stamp(annotations[k], "textId", tid)]

\* the collections stamped with a textId the calls share: the first minted
DataToIndexSharedId(cs, input, tid) ==
    LET minted == ({textId[j] : j \in Imports} \ {Null}) \cup {tid}
        shared == CHOOSE t \in minted : \A u \in minted : t <= u
    IN << [type |-> "text", list |-> ChunkRecords(cs, shared)],
          [type |-> "semantics", list |-> StampAll(input.semantics, shared)],
          [type |-> "typography", list |-> StampAll(input.typography, shared)] >>

\* the collections with the annotations ahead of the text
DataToIndexAnnotationsFirst(cs, input, tid) ==
    << [type |-> "semantics", list |-> StampAll(input.semantics, tid)],
       [type |-> "typography", list |-> StampAll(input.typography, tid)],
       [type |-> "text", list |-> ChunkRecords(cs, tid)] >>

\* lines 556-578
DataToIndex(cs, input, tid) ==
    << [type |-> "text", list |-> ChunkRecords(cs, tid)],
       [type |-> "semantics", list |-> StampAll(input.semantics, tid)],
       [type |-> "typography", list |-> StampAll(input.typography, tid)] >>

\* lines 550-552: the call, up to the client.index of the metadata
importData(i) ==
    /\ ipc[i] = "idle"
    /\ caller[i] = "importData"
    /\ LET metadata == Stamp(data[i].metadata, "date", "Date.now")
       IN /\ data' = [data EXCEPT ![i].metadata = metadata]
          /\ pending' = [pending EXCEPT ![i] = IndexRequest("structure", metadata)]
          /\ trace' = Append(trace, Submitted(i, IndexRequest("structure", metadata)))
    /\ ipc' = [ipc EXCEPT ![i] = "metadata"]
    /\ UNCHANGED <<store, nextId, chunkSize, caller, textId, lists, type, list,
                   dataToIndex, pcb, cb>>

\* the store answers the client.index of the metadata: lines 552-587
MetadataAck(i) ==
    /\ ipc[i] = "metadata"
    /\ \E ok \in BOOLEAN :
        IF ok
        THEN LET tid == nextId
                 split == createTextChunks(chunkSize, data[i])
                 sorted == SortBy(data[i].text, "sequence")
                 colls == DataToIndex(split.result, data[i], tid)
                 tr == Append(trace, Acked(i, pending[i]))
             IN /\ store' = Indexed(store, Document(tid, pending[i]))
                /\ nextId' = nextId + 1
                /\ textId' = [textId EXCEPT ![i] = tid]
                /\ IF split.returns
                   THEN /\ data' = [data EXCEPT
                                      ![i].text = sorted,
                                      ![i].semantics = StampAll(@, tid),
                                      ![i].typography = StampAll(@, tid)]
                        /\ dataToIndex' = [dataToIndex EXCEPT ![i] = colls]
                        /\ Proceed(i, indexArrays(colls), tr)
                   ELSE \* createTextChunks never returns
                        /\ data' = [data EXCEPT ![i].text = sorted]
                        /\ ipc' = [ipc EXCEPT ![i] = "hung"]
                        /\ pending' = [pending EXCEPT ![i] = NoRequest]
                        /\ trace' = tr
                        /\ UNCHANGED <<dataToIndex, lists, type, list, pcb>>
                /\ UNCHANGED cb
        ELSE /\ cb' = [cb EXCEPT ![i] = Append(@, [err |-> StoreErr, textId |-> Null])]
             /\ ipc' = [ipc EXCEPT ![i] = "done"]
             /\ pending' = [pending EXCEPT ![i] = NoRequest]
             /\ trace' = Append(trace, Failed(i, pending[i]))
             /\ UNCHANGED <<store, nextId, data, textId, dataToIndex, lists, type,
                            list, pcb>>
    /\ UNCHANGED <<chunkSize, caller>>

\* the store answers client.refresh: lines 580-582
RefreshAck(i) ==
    /\ ipc[i] = "refresh"
    /\ \E ok \in BOOLEAN :
        /\ cb' = [cb EXCEPT ![i] = Append(@, [err |-> IF ok THEN NullErr ELSE StoreErr,
                                              textId |-> textId[i]])]
        /\ trace' = Append(trace, IF ok THEN Acked(i, pending[i])
                                       ELSE Failed(i, pending[i]))
    /\ ipc' = [ipc EXCEPT ![i] = "done"]
    /\ pending' = [pending EXCEPT ![i] = NoRequest]
    /\ UNCHANGED <<store, nextId, chunkSize, caller, data, textId, lists, type,
                   list, dataToIndex, pcb>>

(***************************************************************************)
(* indexArrays called directly on arbitrary collections.                   *)
(***************************************************************************)
Records == {[name |-> "A"], [name |-> "B"]}
Collections == [type : {"text", "semantics"}, list : SeqsUpTo(Records, MaxRecords)]
CollectionInputs == SeqsUpTo(Collections, MaxCollections)

InitPipeline ==
    /\ IdleSplit
    /\ IdleStore
    /\ IdleFetch
    /\ IdleJoin
    /\ chunkSize = textChunkSize
    /\ \E colls \in CollectionInputs :
        NotStarted([i \in Imports |-> IF i = 1 THEN "idle" ELSE "off"],
                   [i \in Imports |-> IF i = 1 THEN "direct" ELSE "none"],
                   [i \in Imports |-> NoData],
                   [i \in Imports |-> IF i = 1 THEN colls ELSE <<>>])

NextPipeline ==
    \/ \E i \in Imports : IndexArraysCall(i) /\ UNCHANGED <<splitVars, fetchVars, joinVars>>
    \/ \E i \in Imports : IndexAck(i) /\ UNCHANGED <<splitVars, fetchVars, joinVars>>

SpecPipeline == InitPipeline /\ [][NextPipeline]_vars

(***************************************************************************)
(* buildRangeQuery, lines 39-65, and the store's evaluation of a query.    *)
(***************************************************************************)
\* the query selecting the records that lie within the window
buildRangeQueryContained(tid, start, end) ==
    [query |-> [bool |-> [must |-> <<
        [text |-> [textId |-> tid]],
        [range |-> [start |-> [gte |-> start]]],
        [range |-> [end |-> [lte |-> end]]] >>]],
     size |-> 1000000,
     index |-> "textusIndex"]

buildRangeQuery(tid, start, end) ==
    [query |-> [bool |-> [must |-> <<
        [text |-> [textId |-> tid]],
        [range |-> [start |-> [lt |-> end]]],
        [range |-> [end |-> [gte |-> start]]] >>]],
     size |-> 1000000,
     index |-> "textusIndex"]

\* a bound of a range clause holds of a value
BoundHolds(op, bound, value) ==
    CASE op = "lt" -> value < bound
      [] op = "lte" -> value <= bound
      [] op = "gt" -> value > bound
      [] op = "gte" -> value >= bound

\* a clause of a bool query holds of a document: a text clause when the
\* document has the field with that value, a range clause when it has the
\* field within the bounds
ClauseHolds(clause, doc) ==
    IF "text" \in DOMAIN clause
    THEN \A f \in DOMAIN clause.text :
            f \in DOMAIN doc._source /\ doc._source[f] = clause.text[f]
    ELSE \A f \in DOMAIN clause.range :
            /\ f \in DOMAIN doc._source
            /\ \A op \in DOMAIN clause.range[f] :
                  BoundHolds(op, clause.range[f][op], doc._source[f])

\* the documents a bool query selects: those all its must clauses hold of
Matching(q, docs) ==
    {doc \in docs :
        \A k \in 1..Len(q.query.bool.must) : ClauseHolds(q.query.bool.must[k], doc)}

\* the orders a set of hits can be returned in
RECURSIVE Orderings(_)
Orderings(S) ==
    IF S = {} THEN {<<>>}
    ELSE UNION {{<<x>> \o rest : rest \in Orderings(S \ {x})} : x \in S}

(***************************************************************************)
(* joinTextChunksAndTrim, lines 119-145.                                   *)
(***************************************************************************)
\* the join answering no chunks with the window asked for
joinTextChunksAndTrimEmptyWindow(start, end, cs) ==
    IF Len(cs) = 0 THEN [text |-> <<>>, start |-> start, end |-> end]
    ELSE LET sorted == SortBy(cs, "start")
         IN IF start # Null /\ end # Null
            THEN [text |-> Substr(Join(MapText(sorted)),
                                  start - sorted[1].start, end - start),
                  start |-> start, end |-> end]
            ELSE [text |-> Join(MapText(sorted))]

\* the join without the sort of line 127
joinTextChunksAndTrimUnsorted(start, end, cs) ==
    IF Len(cs) = 0 THEN [text |-> <<>>, start |-> 0, end |-> 0]
    ELSE IF start # Null /\ end # Null
         THEN [text |-> Substr(Join(MapText(cs)), start - cs[1].start, end - start),
               start |-> start, end |-> end]
         ELSE [text |-> Join(MapText(cs))]

joinTextChunksAndTrim(start, end, cs) ==
    IF Len(cs) = 0 THEN [text |-> <<>>, start |-> 0, end |-> 0]
    ELSE LET sorted == SortBy(cs, "start")
         IN IF start # Null /\ end # Null
            THEN [text |-> Substr(Join(MapText(sorted)),
                                  start - sorted[1].start, end - start),
                  start |-> start, end |-> end]
            ELSE [text |-> Join(MapText(sorted))]

\* the inputs tried: a text over two letters, cut into contiguous chunks
\* between two offsets, the chunks in any order, and a window they cover or
\* no window; and no chunk at all with any window
JoinChars == {"a", "b"}
JoinTexts == SeqsUpTo(JoinChars, MaxJoinLen)
Windows(lo, hi) == {w \in (lo..hi) \X (lo..hi) : w[1] < w[2]}
\* the chunks of txt between the offsets of bounds that follow each other
ChunksBetween(txt, bounds) ==
    {[text |-> SubSeq(txt, a + 1, b), start |-> a, end |-> b] :
        <<a, b>> \in {w \in bounds \X bounds :
                        w[1] < w[2] /\ ~\E c \in bounds : w[1] < c /\ c < w[2]}}
Chunkings(txt) ==
    {ChunksBetween(txt, bounds) : bounds \in (SUBSET (0..Len(txt))) \ {{}}}

InitJoin ==
    /\ IdleSplit
    /\ IdleStore
    /\ IdleImport
    /\ IdleFetch
    /\ jtext \in JoinTexts
    /\ \E cut \in Chunkings(jtext) :
        \/ /\ chunks \in Orderings(cut)
           /\ \E w \in {<<Null, Null>>}
                   \cup (IF cut = {} THEN Windows(0, MaxJoinLen)
                         ELSE LET lo == CHOOSE a \in {c.start : c \in cut} :
                                           \A c \in cut : a <= c.start
                                  hi == CHOOSE b \in {c.end : c \in cut} :
                                           \A c \in cut : c.end <= b
                              IN Windows(lo, hi)) :
               /\ jstart = w[1]
               /\ jend = w[2]
        \* with no window, any of the chunks, gaps between them or not
        \/ /\ \E some \in SUBSET cut : chunks \in Orderings(some)
           /\ jstart = Null
           /\ jend = Null
    /\ joined = [text |-> <<>>]
    /\ jpc = "call"

\* the call and its return; the sort of line 127 sorts the caller's array
JoinCall ==
    /\ jpc = "call"
    /\ joined' = joinTextChunksAndTrim(jstart, jend, chunks)
    /\ chunks' = IF Len(chunks) = 0 THEN chunks ELSE SortBy(chunks, "start")
    /\ jpc' = "done"
    /\ UNCHANGED <<jtext, jstart, jend>>

NextJoin ==
    \/ JoinCall /\ UNCHANGED <<splitVars, storeVars, importVars, fetchVars>>

SpecJoin == InitJoin /\ [][NextJoin]_vars

(***************************************************************************)
(* fetchText, lines 470-504.                                               *)
(***************************************************************************)
SearchRequest(q) == [op |-> "search", query |-> q]

\* lines 470-471: the call, up to client.search
fetchText(tid, start, end) ==
    /\ fpc = "idle"
    /\ fargs' = [textId |-> tid, start |-> start, end |-> end]
    /\ fpending' = SearchRequest(buildRangeQuery(tid, start, end))
    /\ fpc' = "search"
    /\ UNCHANGED <<fhits, fcb>>

\* the hits of one type among a set of hits
OfType(hits, ty) == {h \in hits : h._type = ty}
KnownTypes == {"text", "typography", "semantics"}
OfUnknownType(hits) == {h \in hits : h._type \notin KnownTypes}

\* lines 480-487: the sources pushed for hits of one type, in their order;
\* hit._source.id = hit._id for an annotation
Sources(hits, ty) ==
    [k \in 1..Len(hits) |->
        IF ty = "text" THEN hits[k]._source
        ELSE Stamp(hits[k]._source, "id", hits[k]._id)]

\* lines 478 and 489: error is set by each hit of an unknown type, the last
\* one's staying
UnknownType(hits) ==
    IF hits = <<>> THEN NullErr
    ELSE [null |-> FALSE,
          message |-> <<"Unknown result type! '", hits[Len(hits)]._type, "'.">>]

\* the store answers client.search: lines 471-503.  The hits are the
\* documents the query selects, up to its size, in an order the store picks;
\* forEach pushes the hits of each type to an array of their own, so the
\* order is picked for each type.
SearchAck ==
    /\ fpc = "search"
    /\ \E ok \in BOOLEAN :
        IF ok
        THEN LET selected == Matching(fpending.query, store)
             IN /\ Cardinality(selected) <= fpending.query.size
                /\ fhits' = selected
                /\ \E textChunks \in Orderings(OfType(selected, "text")),
                      typography \in Orderings(OfType(selected, "typography")),
                      semantics \in Orderings(OfType(selected, "semantics")),
                      unknown \in Orderings(OfUnknownType(selected)) :
                     fcb' = Append(fcb,
                        [err |-> UnknownType(unknown),
                         data |-> [textId |-> fargs.textId,
                                   text |-> joinTextChunksAndTrim(fargs.start, fargs.end,
                                               Sources(textChunks, "text")).text,
                                   typography |-> Sources(typography, "typography"),
                                   semantics |-> Sources(semantics, "semantics"),
                                   start |-> fargs.start,
                                   end |-> fargs.end]])
        ELSE /\ fcb' = Append(fcb, [err |-> StoreErr, data |-> Null])
             /\ UNCHANGED fhits
    /\ fpending' = NoRequest
    /\ fpc' = "done"
    /\ UNCHANGED fargs

(***************************************************************************)
(* fetchText over a store that holds one arbitrary record.                 *)
(***************************************************************************)
TextIds == {1, 2}
StoredRecords ==
    {[_id |-> 9, _type |-> ty,
      _source |-> [textId |-> tid, start |-> w[1], end |-> w[2], text |-> <<>>]] :
        ty \in {"text", "typography", "semantics"}, tid \in TextIds,
        w \in Windows(0, MaxOffset)}

InitQuery ==
    /\ IdleSplit
    /\ IdleJoin
    /\ IdleImport
    /\ IdleFetch
    /\ nextId = 10
    /\ trace = <<>>
    /\ \E doc \in StoredRecords : store = {doc}

NextQuery ==
    \/ \E tid \in TextIds, w \in Windows(0, MaxOffset) :
          /\ fetchText(tid, w[1], w[2])
          /\ UNCHANGED <<splitVars, storeVars, importVars, joinVars>>
    \/ SearchAck /\ UNCHANGED <<splitVars, storeVars, importVars, joinVars>>

SpecQuery == InitQuery /\ [][NextQuery]_vars

(***************************************************************************)
(* importData and fetchText over one store.                                *)
(***************************************************************************)
ImportParts == {<<[sequence |-> 0, text |-> t]>> : t \in SeqsUpTo(Chars, MaxImportLen)}
Annotations == {[start |-> 0, end |-> 2]}
ImportInputs ==
    [text : ImportParts,
     semantics : SeqsUpTo(Annotations, MaxAnnotations),
     typography : SeqsUpTo(Annotations, MaxAnnotations),
     metadata : {[title |-> "title"]}]
ChunkSizes == (1..MaxMaxSize) \cup {textChunkSize}

Init ==
    /\ IdleSplit
    /\ IdleJoin
    /\ IdleStore
    /\ IdleFetch
    /\ chunkSize \in ChunkSizes
    /\ \E input \in ImportInputs :
        NotStarted([i \in Imports |-> IF i = 1 THEN "idle" ELSE "off"],
                   [i \in Imports |-> IF i = 1 THEN "importData" ELSE "none"],
                   [i \in Imports |-> IF i = 1 THEN input ELSE NoData],
                   [i \in Imports |-> <<>>])

\* the textIds the store has minted
Minted == {textId[i] : i \in Imports} \ {Null}

Next ==
    \/ \E i \in Imports : importData(i) /\ UNCHANGED <<splitVars, fetchVars, joinVars>>
    \/ \E i \in Imports : MetadataAck(i) /\ UNCHANGED <<splitVars, fetchVars, joinVars>>
    \/ \E i \in Imports : IndexAck(i) /\ UNCHANGED <<splitVars, fetchVars, joinVars>>
    \/ \E i \in Imports : RefreshAck(i) /\ UNCHANGED <<splitVars, fetchVars, joinVars>>
    \/ \E tid \in Minted, w \in Windows(0, MaxOffset) :
          /\ fetchText(tid, w[1], w[2])
          /\ UNCHANGED <<splitVars, storeVars, importVars, joinVars>>
    \/ SearchAck /\ UNCHANGED <<splitVars, storeVars, importVars, joinVars>>

Spec == Init /\ [][Next]_vars

(***************************************************************************)
(* One call of importData, or of indexArrays, alone on the store.          *)
(***************************************************************************)
InitImport ==
    /\ IdleSplit
    /\ IdleJoin
    /\ IdleStore
    /\ IdleFetch
    /\ \/ /\ chunkSize \in ChunkSizes
          /\ \E input \in ImportInputs :
                NotStarted([i \in Imports |-> IF i = 1 THEN "idle" ELSE "off"],
                           [i \in Imports |-> IF i = 1 THEN "importData" ELSE "none"],
                           [i \in Imports |-> IF i = 1 THEN input ELSE NoData],
                           [i \in Imports |-> <<>>])
       \/ /\ chunkSize = textChunkSize
          /\ \E colls \in CollectionInputs :
                NotStarted([i \in Imports |-> IF i = 1 THEN "idle" ELSE "off"],
                           [i \in Imports |-> IF i = 1 THEN "direct" ELSE "none"],
                           [i \in Imports |-> NoData],
                           [i \in Imports |-> IF i = 1 THEN colls ELSE <<>>])

\* the store answers the request call i has in flight
StoreAnswers(i) ==
    /\ MetadataAck(i) \/ IndexAck(i) \/ RefreshAck(i)
    /\ UNCHANGED <<splitVars, fetchVars, joinVars>>

NextImport ==
    \/ \E i \in Imports : importData(i) /\ UNCHANGED <<splitVars, fetchVars, joinVars>>
    \/ \E i \in Imports : IndexArraysCall(i) /\ UNCHANGED <<splitVars, fetchVars, joinVars>>
    \/ \E i \in Imports : MetadataAck(i) /\ UNCHANGED <<splitVars, fetchVars, joinVars>>
    \/ \E i \in Imports : IndexAck(i) /\ UNCHANGED <<splitVars, fetchVars, joinVars>>
    \/ \E i \in Imports : RefreshAck(i) /\ UNCHANGED <<splitVars, fetchVars, joinVars>>

SpecImport == InitImport /\ [][NextImport]_vars
\* the store answers every request, and the callback of the client runs
SpecImportFair == SpecImport /\ \A i \in Imports : WF_vars(StoreAnswers(i))

(***************************************************************************)
(* Two calls of importData on distinct inputs, their requests interleaved. *)
(***************************************************************************)
TwoInputs ==
    { [text |-> <<[sequence |-> 0, text |-> <<"a", " ", "a">>]>>,
       semantics |-> <<[start |-> 0, end |-> 2]>>,
       typography |-> <<>>,
       metadata |-> [title |-> "first"]],
      [text |-> <<[sequence |-> 0, text |-> <<" ", "a">>]>>,
       semantics |-> <<>>,
       typography |-> <<[start |-> 0, end |-> 2]>>,
       metadata |-> [title |-> "second"]] }

InitTwo ==
    /\ IdleSplit
    /\ IdleJoin
    /\ IdleStore
    /\ IdleFetch
    /\ chunkSize = textChunkSize
    /\ \E inputs \in [Imports -> TwoInputs] :
        /\ \A i, j \in Imports : i # j => inputs[i] # inputs[j]
        /\ NotStarted([i \in Imports |-> "idle"],
                      [i \in Imports |-> "importData"],
                      inputs,
                      [i \in Imports |-> <<>>])

NextTwo ==
    \/ \E i \in Imports : importData(i) /\ UNCHANGED <<splitVars, fetchVars, joinVars>>
    \/ \E i \in Imports : MetadataAck(i) /\ UNCHANGED <<splitVars, fetchVars, joinVars>>
    \/ \E i \in Imports : IndexAck(i) /\ UNCHANGED <<splitVars, fetchVars, joinVars>>
    \/ \E i \in Imports : RefreshAck(i) /\ UNCHANGED <<splitVars, fetchVars, joinVars>>

SpecTwo == InitTwo /\ [][NextTwo]_vars

(***************************************************************************)
(* Properties of createTextChunks.                                         *)
(***************************************************************************)
\* the part texts concatenated in ascending sequence order, parts of equal
\* sequence in input order
RECURSIVE ConcatFrom(_, _)
ConcatFrom(textParts, s) ==
    IF \A i \in 1..Len(textParts) : textParts[i].sequence < s THEN <<>>
    ELSE Join(MapText(SelectSeq(textParts, LAMBDA p : p.sequence = s)))
            \o ConcatFrom(textParts, s + 1)
InSequenceOrder(textParts) == ConcatFrom(textParts, 0)

\* the number of space-separated tokens of a string: its maximal runs of
\* characters other than the space
TokenCount(str) ==
    Cardinality({i \in 1..Len(str) :
                    str[i] # " " /\ (i = 1 \/ str[i - 1] = " ")})

\* C4: createTextChunks terminates on every input: the loop is left and the
\* chunk list is returned.
C4_Terminates == <>(cpc = "done")

\* C5: the returned chunks partition the merged text: the offsets start at 0,
\* each next offset is the previous one plus the length of the previous text,
\* and the chunk texts concatenated give the part texts in sequence order.
C5_Partition ==
    cpc = "done" =>
        /\ Join(MapText(result)) = InSequenceOrder(parts)
        /\ result # <<>> => result[1].offset = 0
        /\ \A i \in 1..(Len(result) - 1) :
              result[i + 1].offset = result[i].offset + Len(result[i].text)

C5_Witness ==
    /\ cpc = "done"
    /\ Len(result) >= 2
    /\ Len(parts) = 2
    /\ parts[1].sequence > parts[2].sequence
    /\ parts[1].text # parts[2].text

\* C6: every returned chunk is at most maxSize long, unless it holds a single
\* token that no space splits; no chunk longer than maxSize holds several
\* space-separated tokens.
C6_SizeBound ==
    cpc = "done" =>
        \A i \in 1..Len(result) :
            Len(result[i].text) <= maxSize \/ TokenCount(result[i].text) <= 1

\* C7 as stated: the example parts with maxSize 6 give the two chunks
\* "the " at 0 and "hello " at 4.
C7_ExampleAsStated ==
    (cpc = "done" /\ parts = ExampleParts /\ maxSize = Example.maxSize) =>
        result = << [text |-> <<"t", "h", "e", " ">>, offset |-> 0],
                    [text |-> <<"h", "e", "l", "l", "o", " ">>, offset |-> 4] >>

\* C7: the example parts with maxSize 6 merge to "the hello " and give the
\* three chunks "the" at 0, " hello" at 3 and " " at 9: each space starts the
\* next chunk.
C7_Example ==
    (parts = ExampleParts /\ maxSize = Example.maxSize) =>
        /\ cpc = "while" /\ result = <<>> =>
              text = <<"t", "h", "e", " ", "h", "e", "l", "l", "o", " ">>
        /\ cpc = "done" =>
              result = << [text |-> <<"t", "h", "e">>, offset |-> 0],
                          [text |-> <<" ", "h", "e", "l", "l", "o">>, offset |-> 3],
                          [text |-> <<" ">>, offset |-> 9] >>

C7_Witness == cpc = "done" /\ parts = ExampleParts /\ maxSize = Example.maxSize

(***************************************************************************)
(* Properties of indexArray / indexArrays.                                 *)
(***************************************************************************)
\* the records of the collections in order, each with its collection's type
RECURSIVE Flatten(_)
Flatten(colls) ==
    IF colls = <<>> THEN <<>>
    ELSE [k \in 1..Len(Head(colls).list) |->
             [type |-> Head(colls).type, item |-> Head(colls).list[k]]]
         \o Flatten(Tail(colls))

\* the events of call i, in order
EventsOf(i) == SelectSeq(trace, LAMBDA e : e.by = i)
\* the events of the pipeline of call i: those of its client.index requests
\* other than the metadata's
IsPipelineEvent(e) == e.req.op = "index" /\ e.req.type # "structure"
PipelineEventsOf(i) == SelectSeq(EventsOf(i), IsPipelineEvent)
\* the writes of the given kind of event, as type and record
WritesOf(i, ev) ==
    LET es == SelectSeq(PipelineEventsOf(i), LAMBDA e : e.ev = ev)
    IN [k \in 1..Len(es) |-> [type |-> es[k].req.type, item |-> es[k].req.item]]

IsPrefix(a, b) == Len(a) <= Len(b) /\ a = SubSeq(b, 1, Len(a))

\* C2: once a write of the pipeline has failed, no further record is
\* submitted, and the error handed to the callback of indexArrays carries
\* the type of the collection that holds the failing record.
C2_FailFast ==
    \A i \in Imports :
        LET es == PipelineEventsOf(i)
            expected == Flatten(dataToIndex[i])
        IN \A k \in 1..Len(es) :
              es[k].ev = "fail" =>
                /\ k = Len(es)
                /\ Len(WritesOf(i, "submit")) <= Len(expected)
                /\ pcb[i] = << [null |-> FALSE,
                                message |-> <<"Error while indexing ",
                                              expected[Len(WritesOf(i, "submit"))].type>>] >>

C2_Witness ==
    /\ pcb[1] # <<>>
    /\ ~pcb[1][1].null
    /\ list[1] # <<>>
    /\ lists[1] # <<>>
    /\ Head(lists[1]).list # <<>>
    /\ Head(lists[1]).type # type[1]
    /\ Len(WritesOf(1, "ack")) >= 1

\* C3: the pipeline has at most one write outstanding; it submits the records
\* of the collections in order, each under its collection's type and each
\* after the acknowledgement of the one before; and it signals success only
\* when every record of every collection was written exactly once.
C3_Sequential ==
    \A i \in Imports :
        LET es == PipelineEventsOf(i)
            expected == Flatten(dataToIndex[i])
        IN /\ IsPrefix(WritesOf(i, "submit"), expected)
           /\ \A k \in 1..Len(es) :
                IF es[k].ev = "submit"
                THEN k = 1 \/ es[k - 1].ev = "ack"
                ELSE k > 1 /\ es[k - 1].ev = "submit" /\ es[k - 1].req = es[k].req
           /\ (pcb[i] # <<>> /\ pcb[i][1].null) =>
                /\ WritesOf(i, "ack") = expected
                /\ WritesOf(i, "submit") = expected
                /\ Cardinality({d \in store : d._type # "structure"}) >= Len(expected)

C3_Witness ==
    /\ pcb[1] = <<NullErr>>
    /\ Len(dataToIndex[1]) = 2
    /\ Len(dataToIndex[1][1].list) = 2
    /\ Len(dataToIndex[1][2].list) >= 1
    /\ dataToIndex[1][1].type # dataToIndex[1][2].type
    /\ dataToIndex[1][1].list[1] # dataToIndex[1][1].list[2]

(***************************************************************************)
(* Properties of buildRangeQuery, joinTextChunksAndTrim, importData and    *)
(* fetchText.                                                              *)
(***************************************************************************)
\* the half-open ranges [s1, e1) and [s2, e2) intersect
Intersect(s1, e1, s2, e2) == s1 < e2 /\ s2 < e1

\* C8: the query of fetchText selects a stored record exactly when the
\* record has the textId asked for and its range [start, end) intersects the
\* window [start, end) asked for; a record that ends where the window starts
\* is not selected.
C8_OverlapTest ==
    (fpc = "done" /\ fcb[1].err.null) =>
        \A doc \in store :
            doc \in fhits <=>
                /\ doc._source.textId = fargs.textId
                /\ Intersect(doc._source.start, doc._source.end, fargs.start, fargs.end)

\* C9: given a window and, in any order, contiguous chunks of a text that
\* cover the window, joinTextChunksAndTrim returns the characters of the text
\* from start up to end, with the start and the end asked for.
C9_BoundedJoin ==
    (jpc = "done" /\ chunks # <<>> /\ jstart # Null /\ jend # Null) =>
        joined = [text |-> SubSeq(jtext, jstart + 1, jend),
                  start |-> jstart, end |-> jend]

C9_Witness ==
    /\ jpc = "done"
    /\ Len(chunks) >= 3
    /\ jstart # Null
    /\ jstart > chunks[1].start
    /\ jstart < chunks[1].end
    /\ jend < chunks[Len(chunks)].end
    /\ jend > chunks[1].end
    /\ \E k \in 1..(Len(joined.text) - 1) : joined.text[k] # joined.text[k + 1]

\* the calls of importData that have a failed write: the metadata's or one
\* of the pipeline's
FailedWrites(i) ==
    SelectSeq(EventsOf(i), LAMBDA e : e.ev = "fail" /\ e.req.op = "index")
\* the error a failed write of the import gives: the store's for the
\* metadata, the annotated one for a write of the pipeline
ErrorOf(e) ==
    IF e.req.type = "structure" THEN StoreErr
    ELSE [null |-> FALSE, message |-> <<"Error while indexing ", e.req.type>>]

\* C1: an import one of whose writes failed ends by handing its caller that
\* error, and no textId.
C1_FailureSurfaced ==
    \A i \in Imports :
        (ipc[i] = "done" /\ caller[i] = "importData" /\ FailedWrites(i) # <<>>) =>
            /\ Len(cb[i]) = 1
            /\ cb[i][1].err = ErrorOf(FailedWrites(i)[1])
            /\ cb[i][1].textId = Null

\* the text of import i, and the chunk records importData derives from it
TextOf(i) == MergedText(data[i].text)
ChunksOf(i) ==
    ChunkRecords(createTextChunks(chunkSize, data[i]).result, textId[i])
\* every chunk of the text of import i is in the store
AllChunksWritten(i) ==
    /\ textId[i] # Null
    /\ createTextChunks(chunkSize, data[i]).returns
    /\ \A k \in 1..Len(ChunksOf(i)) :
          \E doc \in store : doc._type = "text" /\ doc._source = ChunksOf(i)[k]

\* C10: when the store answers the search of fetchText(textId, start, end)
\* after all chunks of the text imported under textId were written, and
\* 0 <= start < end <= the length of the text, the text handed to the
\* callback is the characters of the text from start up to end, end - start
\* of them, in whatever order the hits came.
C10_RoundTrip ==
    [][\A i \in Imports :
          (/\ fpc = "search"
           /\ fpc' = "done"
           /\ fcb'[1].err # StoreErr
           /\ AllChunksWritten(i)
           /\ fargs.textId = textId[i]
           /\ 0 <= fargs.start
           /\ fargs.start < fargs.end
           /\ fargs.end <= Len(TextOf(i)))
          => /\ fcb'[1].data.text = SubSeq(TextOf(i), fargs.start + 1, fargs.end)
             /\ Len(fcb'[1].data.text) = fargs.end - fargs.start]_vars

C10_Witness ==
    /\ fpc = "done"
    /\ fcb[1].err # StoreErr
    /\ AllChunksWritten(1)
    /\ fargs.textId = textId[1]
    /\ Len(ChunksOf(1)) >= 3
    /\ Cardinality({doc \in fhits : doc._type = "text"}) >= 3
    /\ fargs.start > 0
    /\ fargs.end <= Len(TextOf(1))
    /\ fcb[1].data.text = SubSeq(TextOf(1), fargs.start + 1, fargs.end)
    /\ \E k \in 1..(Len(fcb[1].data.text) - 1) :
          fcb[1].data.text[k] # fcb[1].data.text[k + 1]

(***************************************************************************)
(* Properties of the steps of importData.                                  *)
(***************************************************************************)
\* the number of records of the given type among the input of call i
RecordsOfType(i, ty) ==
    Len(SelectSeq(Flatten(dataToIndex[i]), LAMBDA w : w.type = ty))
\* the number of events before the k-th of es that are of kind ev and of a
\* request to index a record of type ty
CountBefore(es, k, ev, ty) ==
    Cardinality({j \in 1..(k - 1) :
                    es[j].ev = ev /\ es[j].req.op = "index" /\ es[j].req.type = ty})

\* C11: in an import the metadata write is acknowledged before any chunk or
\* annotation is submitted, every chunk is written before any semantics
\* annotation and every semantics annotation before any typography one, the
\* refresh is issued after the last write of the pipeline, and the textId is
\* handed to the caller only once the store has answered the refresh.
C11_StepOrder ==
    \A i \in Imports :
        caller[i] = "importData" =>
            LET es == EventsOf(i)
            IN /\ \A k \in 1..Len(es) :
                    (es[k].ev = "submit" /\ IsPipelineEvent(es[k])) =>
                        /\ CountBefore(es, k, "ack", "structure") = 1
                        /\ es[k].req.type \in {"text", "semantics", "typography"}
                        /\ es[k].req.type \in {"semantics", "typography"} =>
                              CountBefore(es, k, "ack", "text") = RecordsOfType(i, "text")
                        /\ es[k].req.type = "typography" =>
                              CountBefore(es, k, "ack", "semantics")
                                  = RecordsOfType(i, "semantics")
                        /\ es[k].req.type = "text" =>
                              /\ CountBefore(es, k, "submit", "semantics") = 0
                              /\ CountBefore(es, k, "submit", "typography") = 0
                        /\ es[k].req.type = "semantics" =>
                              CountBefore(es, k, "submit", "typography") = 0
               /\ \A k \in 1..Len(es) :
                    (es[k].ev = "submit" /\ es[k].req.op = "refresh") =>
                        \A j \in 1..Len(es) : IsPipelineEvent(es[j]) => j < k
               /\ \A n \in 1..Len(cb[i]) :
                    cb[i][n].textId # Null =>
                        /\ es # <<>>
                        /\ es[Len(es)].req.op = "refresh"
                        /\ es[Len(es)].ev \in {"ack", "fail"}

C11_Witness ==
    /\ caller[1] = "importData"
    /\ cb[1] = <<[err |-> NullErr, textId |-> textId[1]]>>
    /\ RecordsOfType(1, "text") >= 2
    /\ RecordsOfType(1, "semantics") >= 1
    /\ RecordsOfType(1, "typography") >= 1
    /\ Len(WritesOf(1, "ack")) = Len(Flatten(dataToIndex[1]))

\* C12: importData and indexArrays send the store nothing but index requests
\* without an id and refreshes, no document leaves the store or changes, and
\* every record whose write was acknowledged is in the store, as written, in
\* every later state.
C12_NoRollback ==
    [][/\ \A d \in store : d \in store'
       /\ \A k \in 1..Len(trace') :
            /\ trace'[k].req.op \in {"index", "refresh"}
            /\ "id" \notin DOMAIN trace'[k].req
            /\ (trace'[k].ev = "ack" /\ trace'[k].req.op = "index") =>
                  \E d \in store' : /\ d._type = trace'[k].req.type
                                    /\ d._source = trace'[k].req.item]_vars

C12_Witness ==
    /\ ipc[1] = "done"
    /\ \E k \in 1..Len(trace) : trace[k].ev = "fail" /\ IsPipelineEvent(trace[k])
    /\ Len(WritesOf(1, "ack")) >= 2
    /\ Cardinality({d \in store : d._type # "structure"}) >= 2

(***************************************************************************)
(* Properties of two imports on one store.                                 *)
(***************************************************************************)
\* the index requests call i submits when it runs alone and no write fails:
\* its metadata, then its chunks and annotations
AloneWrites(i) ==
    <<[type |-> "structure", item |-> data[i].metadata]>>
    \o (IF textId[i] = Null THEN <<>>
        ELSE Flatten(DataToIndex(createTextChunks(chunkSize, data[i]).result,
                                 data[i], textId[i])))
\* the index requests call i has submitted, as type and record
IndexSubmitsOf(i) ==
    LET es == SelectSeq(EventsOf(i),
                        LAMBDA e : e.ev = "submit" /\ e.req.op = "index")
    IN [k \in 1..Len(es) |-> [type |-> es[k].req.type, item |-> es[k].req.item]]

\* C13: with two imports interleaved, every chunk and annotation an import
\* submits carries the textId minted for that import, the two textIds differ,
\* the writes of each import are in the order it submits them in alone, and a
\* caller that is handed a textId is handed the one of its own import.
C13_Independent ==
    \A i \in Imports :
        /\ \A j \in Imports :
              (i # j /\ textId[i] # Null) => textId[i] # textId[j]
        /\ \A k \in 1..Len(PipelineEventsOf(i)) :
              PipelineEventsOf(i)[k].req.item.textId = textId[i]
        /\ textId[i] # Null =>
              \E d \in store : /\ d._id = textId[i]
                               /\ d._type = "structure"
                               /\ d._source = data[i].metadata
        /\ IsPrefix(IndexSubmitsOf(i), AloneWrites(i))
        /\ \A n \in 1..Len(cb[i]) :
              /\ cb[i][n].textId \in {Null, textId[i]}
              /\ cb[i][n].err.null => cb[i][n].textId # Null

\* both imports wrote everything, their requests interleaved
C13_Witness ==
    /\ \A i \in Imports :
          /\ cb[i] = <<[err |-> NullErr, textId |-> textId[i]]>>
          /\ IndexSubmitsOf(i) = AloneWrites(i)
          /\ Len(WritesOf(i, "ack")) = Len(AloneWrites(i)) - 1
    /\ \E a, b, c, d \in 1..Len(trace) :
          /\ a < b /\ b < c /\ c < d
          /\ trace[a].by = 1 /\ trace[b].by = 2
          /\ trace[c].by = 1 /\ trace[d].by = 2
          /\ IsPipelineEvent(trace[b]) /\ IsPipelineEvent(trace[c])

(***************************************************************************)
(* Further properties of joinTextChunksAndTrim.                            *)
(***************************************************************************)
\* the texts of a set of records concatenated in ascending order of start
RECURSIVE ConcatByStart(_)
ConcatByStart(S) ==
    IF S = {} THEN <<>>
    ELSE LET first == CHOOSE c \in S : \A d \in S : c.start <= d.start
         IN first.text \o ConcatByStart(S \ {first})

\* C14: given records in any order and no window, joinTextChunksAndTrim
\* returns the texts of the records concatenated in ascending order of
\* start, whole, in a result with no start and no end.
C14_UnboundedJoin ==
    (jpc = "done" /\ chunks # <<>> /\ jstart = Null /\ jend = Null) =>
        /\ DOMAIN joined = {"text"}
        /\ joined.text = ConcatByStart({chunks[k] : k \in 1..Len(chunks)})

C14_Witness ==
    /\ jpc = "done"
    /\ jstart = Null
    /\ jend = Null
    /\ Len(chunks) >= 2
    /\ chunks[1].start > 0
    /\ chunks[2].start > chunks[1].end
    /\ \E k \in 1..(Len(joined.text) - 1) : joined.text[k] # joined.text[k + 1]

\* C15: given no records, joinTextChunksAndTrim returns the empty text with
\* start 0 and end 0, whatever window was asked for.
C15_EmptyJoin ==
    (jpc = "done" /\ chunks = <<>>) =>
        joined = [text |-> <<>>, start |-> 0, end |-> 0]

C15_Witness ==
    /\ jpc = "done"
    /\ chunks = <<>>
    /\ jstart # Null
    /\ jstart > 0
    /\ jend > jstart

(***************************************************************************)
(* Properties of a failed import, of the chunks in the store and of the    *)
(* callbacks.                                                              *)
(***************************************************************************)
\* C16: an import submits the refresh only when every chunk, semantics
\* annotation and typography annotation was acknowledged, and after a failed
\* write, the metadata's or one of the pipeline's, it submits nothing more to
\* the store: no write and no refresh.
C16_ShortCircuit ==
    \A i \in Imports :
        caller[i] = "importData" =>
            LET es == EventsOf(i)
            IN /\ \A k \in 1..Len(es) :
                    (es[k].ev = "fail" /\ es[k].req.op = "index") => k = Len(es)
               /\ \A k \in 1..Len(es) :
                    (es[k].ev = "submit" /\ es[k].req.op = "refresh") =>
                        WritesOf(i, "ack") = Flatten(dataToIndex[i])

\* the chunk documents the store holds under the textId of import i
ChunkDocs(i) ==
    {d \in store : /\ d._type = "text"
                   /\ "textId" \in DOMAIN d._source
                   /\ d._source.textId = textId[i]}
\* the chunk records cs cover [0, n): each of them lies within it, and every
\* offset of it is in exactly one of them
Covers(cs, n) ==
    /\ \A c \in cs : 0 <= c.start /\ c.start <= c.end /\ c.end <= n
    /\ \A p \in 0..(n - 1) :
          Cardinality({c \in cs : c.start <= p /\ p < c.end}) = 1

\* C17: when importData has handed its caller a textId with no error, the
\* chunks in the store under that textId are contiguous, do not overlap and
\* cover the merged text from 0 to its length.
C17_Coverage ==
    \A i \in Imports :
        \A n \in 1..Len(cb[i]) :
            (cb[i][n].err.null /\ cb[i][n].textId # Null) =>
                /\ Cardinality({d._source : d \in ChunkDocs(i)})
                      = Cardinality(ChunkDocs(i))
                /\ Covers({d._source : d \in ChunkDocs(i)}, Len(TextOf(i)))

\* C18: in every state of an import, each chunk in the store has
\* end - start = the length of its text and end > start, and the chunks in the
\* store under the textId of the import are the first k chunks the splitter
\* made of the text, for some k, so that they cover [0, p) for some p with
\* no gap and no overlap.
C18_WellFormed ==
    \A i \in Imports :
        (caller[i] = "importData" /\ textId[i] # Null) =>
            LET docs == ChunkDocs(i)
                k == Cardinality(docs)
            IN /\ \A d \in docs :
                    /\ d._source.end - d._source.start = Len(d._source.text)
                    /\ d._source.end > d._source.start
               /\ k <= Len(ChunksOf(i))
               /\ {d._source : d \in docs} = {ChunksOf(i)[j] : j \in 1..k}
               /\ Cardinality({d._source : d \in docs}) = k
               /\ Covers({d._source : d \in docs},
                         IF k = 0 THEN 0 ELSE ChunksOf(i)[k].end)

\* an import that failed at its third chunk, two of its chunks in the store
C18_Witness ==
    /\ caller[1] = "importData"
    /\ ipc[1] = "done"
    /\ Len(ChunksOf(1)) >= 3
    /\ Cardinality(ChunkDocs(1)) = 2
    /\ \E k \in 1..Len(trace) :
          /\ trace[k].ev = "fail"
          /\ trace[k].req.op = "index"
          /\ trace[k].req.type = "text"

\* C19: with a store that answers every request once, importData called on
\* a text createTextChunks returns for ends up invoking its callback, and in
\* no behaviour invokes it more than once, whether the metadata write, a
\* write of the pipeline or the refresh failed or all went well; and
\* indexArrays ends up invoking its callback, never more than once.
C19_ExactlyOnce ==
    \A i \in Imports :
        /\ [](Len(cb[i]) <= 1 /\ Len(pcb[i]) <= 1)
        /\ [](ipc[i] # "done" => cb[i] = <<>>)
        /\ (ipc[i] = "metadata" /\ createTextChunks(chunkSize, data[i]).returns)
              ~> (ipc[i] = "done" /\ Len(cb[i]) = 1)
        /\ (ipc[i] = "indexing") ~> (Len(pcb[i]) = 1)
        /\ []((caller[i] = "direct" /\ ipc[i] = "done") => Len(pcb[i]) = 1)

\* the callback invoked once after a failed write and a failed refresh
C19_Witness ==
    /\ caller[1] = "importData"
    /\ ipc[1] = "done"
    /\ Len(cb[1]) = 1
    /\ Len(pcb[1]) = 1
    /\ Len(WritesOf(1, "ack")) >= 2
    /\ \E k \in 1..Len(trace) : trace[k].ev = "fail" /\ IsPipelineEvent(trace[k])
    /\ trace[Len(trace)] = Failed(1, RefreshRequest)

====
